---------------------------- MODULE Spec2Model ----------------------------
(***************************************************************************)
(* Model of the EV fleet dashboard front end.                              *)
(*   - route.js     : live map, telemetry poll, marker reconciliation,     *)
(*                    marker interpolation                                  *)
(*   - login.js     : login form                                            *)
(*   - authGuard.js : route guard                                           *)
(*   - logs.js      : fleet logs and the active-buses list                  *)
(*   - prediction.js, maintenance.js, dashboard.js, signup.js : the other   *)
(*                    page controllers                                      *)
(* Strings that the code inspects character by character (bus ids,         *)
(* station names, the search box) are sequences of one-character strings.  *)
(* A JavaScript null/undefined is the empty sequence None, a present       *)
(* value v is <<v>>.                                                        *)
(***************************************************************************)
EXTENDS Integers, Sequences, FiniteSets, TLC

\* ------------------------------------------------------------------
\* Program constants
\* ------------------------------------------------------------------
REFRESH_INTERVAL == 10

steps == 40

\* ------------------------------------------------------------------
\* Bounds of the model
\* ------------------------------------------------------------------
MaxBatch == 2

MaxOverdue == 2

MaxMapPasses == 2

MaxAnimPasses == 3

MaxPollPasses == 2

MaxGuardCalls == 2

MaxLifePasses == 4

\* ------------------------------------------------------------------
\* Optional values
\* ------------------------------------------------------------------
None == <<>>

Some(v) == <<v>>

IsNull(o) == o = None

Val(o) == o[1]

\* ------------------------------------------------------------------
\* Strings as character sequences
\* ------------------------------------------------------------------
toLowerCaseChar(c) ==
  CASE c = "B" -> "b"
    [] c = "D" -> "d"
    [] OTHER -> c

toLowerCase(s) == [i \in 1..Len(s) |-> toLowerCaseChar(s[i])]

includes(s, q) ==
  \E i \in 0..(Len(s) - Len(q)) : SubSeq(s, i + 1, i + Len(q)) = q

\* ------------------------------------------------------------------
\* Inputs of the route view
\* ------------------------------------------------------------------
B1 == <<"B", "1">>

B2 == <<"B", "2">>

D1 == <<"D", "1">>

BusIds == {B1, B2}

Unit == steps * steps

Depot == [name |-> D1, available |-> TRUE]

BusRec(id, lat, lng, status, station) ==
  [bus_id |-> id, lat |-> lat, lng |-> lng, status |-> status,
   charging_station |-> station]

\* vehicles of the reconciliation runs: with and without a position,
\* critical or not, with and without a charging station
MapBusRecs ==
  { BusRec(B1, lat, Some(0), st, cs) :
      lat \in {Some(0), None},
      st \in {"GOOD", "CRITICAL"},
      cs \in {None, Some(Depot)} }
  \cup
  { BusRec(B2, Some(0), Some(0), st, Some(Depot)) : st \in {"GOOD", "CRITICAL"} }

\* vehicles of the interpolation runs: one vehicle moving between points
AnimBusRecs ==
  { BusRec(B1, Some(lat), Some(0), "GOOD", None) : lat \in {0, Unit} }

DistinctIds(b) ==
  \A i, j \in 1..Len(b) : i # j => b[i].bus_id # b[j].bus_id

BatchesOf(recs) ==
  { b \in UNION { [1..n -> recs] : n \in 0..MaxBatch } : DistinctIds(b) }

MapBatches == BatchesOf(MapBusRecs)

AnimBatches == BatchesOf(AnimBusRecs)

\* responses of the poll-cycle runs
PollBusRecs == { BusRec(B1, Some(0), Some(0), "GOOD", None) }

PollBatches == BatchesOf(PollBusRecs)

Queries == { <<>>, <<"1">>, <<"B", "2">> }

\* ------------------------------------------------------------------
\* Inputs of the login page and of the guard
\* ------------------------------------------------------------------
LOGIN_TOKEN_KEY == "evfleet_token"

LOGIN_USER_KEY == "evfleet_user"

GUARD_TOKEN_KEY == "token"

ACTIVE_BUSES_KEY == "activeBuses"

SELECTED_BUS_KEY == "selectedBusId"

StorageKeys ==
  {LOGIN_TOKEN_KEY, LOGIN_USER_KEY, GUARD_TOKEN_KEY, ACTIVE_BUSES_KEY,
   SELECTED_BUS_KEY}

\* what the user types: empty, blank, or a value
FieldValues == { <<>>, <<" ">>, <<"j">>, <<" ", "j">> }

UserJo == [name |-> "Jo", role |-> "admin", email |-> None]

UserAl == [name |-> "Al", role |-> "viewer", email |-> Some(<<"a">>)]

\* bodies of POST /api/auth/login
LoginResponses ==
  [ok : BOOLEAN, success : BOOLEAN,
   token : {None, Some(""), Some("abc"), Some("xyz")},
   user : {None, Some(UserJo), Some(UserAl)}]

\* responses of GET /api/auth/me: status and parsed body (None is null)
MeUser(n, r) == [name |-> n, role |-> r, error |-> ""]

MeError == [name |-> "", role |-> "", error |-> "unauthorized"]

MeResponses ==
  { [ok |-> TRUE, body |-> b] :
      b \in {None, Some(MeUser("Jo", "admin")), Some(MeUser("Al", "viewer"))} }
  \cup { [ok |-> FALSE, body |-> Some(MeError)] }

RoleSets == { {"admin"}, {"admin", "viewer"} }

\* ------------------------------------------------------------------
\* State
\* ------------------------------------------------------------------
VARIABLES
  \* route.js
  loaded,          \* DOMContentLoaded has run (map created, interval started)
  isFetching,      \* re-entrancy guard
  inflight,        \* telemetry requests issued and not yet settled
  countdown,       \* seconds to the next scheduled poll
  mapSearch,       \* value of the #mapSearch input
  selectedBusId,   \* selected vehicle ("" is the empty sequence)
  routeState,      \* the #routeState box: "initial", "hidden" or "shown"
  tableRows,       \* vehicles of the rendered table, in order
  busMarkers,      \* bus_id -> marker [lat, lng, obj]
  animationState,  \* bus_id -> cursor [lat, lng, obj]
  steppers,        \* step closures waiting for the next animation frame
  stationLayer,    \* station markers on the station layer, in order
  stationMarkers,  \* names with an entry in stationMarkers
  panLog,          \* vehicles the map was panned to in the last render pass
  mapCenter,       \* last target of panTo / flyTo
  \* history of the route view
  lastEvent,       \* what the last step did
  lastBatch,       \* the buses list of the last successful response
  pollStartIds,    \* marker identifiers when the outstanding poll was issued
  lastTarget,      \* bus_id -> the position most recently reported for its marker
  solo,            \* ids whose latest interpolation started with no other one running
  passes,          \* successful polls so far (bounded in each specification)
  \* the browser: document shown and durable storage
  page,            \* "login", "index" (a protected page), "back", "none"
  localStorage,    \* key -> stored string, None when the key is absent
  \* login.js
  loginLoaded,     \* the DOMContentLoaded handler of the login page has run
  loginButtonDisabled,
  loginMessage,    \* "none", "validation", "failed", "server", "success"
  loginPending,    \* the request body of the outstanding login request
  redirectTimer,   \* the 500 ms timer of the redirect is armed
  \* authGuard.js
  guardPending,    \* the guard call awaiting /api/auth/me
  authRequests,    \* /api/auth/me requests sent by the current document
  currentUser,     \* window.currentUser
  \* history of the session
  loginResp,       \* the last login response handled
  authEvent,       \* outcome of the last guard call
  guardRead,       \* what the last getCurrentUser read from storage
  \* logs.js
  activeBuses,     \* the active-buses list
  logRows,         \* the bus objects of the rows of #logTable, in order
  logState,        \* the #logState box: "initial", "hidden" or a message
  logsLoaded,      \* the DOMContentLoaded handler of the logs page has run
  logsPending,     \* loadLogs requests issued and not yet settled
  exportPending,   \* exportCSV requests issued and not yet settled
  logsAlert,       \* the last alert() of the logs page
  lastDownload,    \* the CSV text of the last download
  \* history of the logs page
  logsEvent,       \* what the last step of the logs page did
  lastRecords,     \* the records of the last response loadLogs merged
  \* prediction.js
  predictLoaded,   \* the click listener of #predictBtn is bound
  predictKpis,     \* the KPI cards: end SoC, risk (with its colour), speed
  predictChart,    \* the curve of the chart, None when there is no chart
  predictMessage,  \* #predictionMessage: "initial", "validation", "info", ..
  predictBtnDisabled,
  predictPending,  \* the payload of the outstanding prediction request
  predictEvent,    \* history: what the last step of the page did
  \* dashboard.js
  dashLoaded,
  dashKpis,        \* the five KPI texts
  dashAlerts,      \* the items of the alerts list
  alertsState,     \* #alertsState: "initial", "hidden" or "optimal"
  dashPending,     \* KPI requests issued and not yet settled
  dashEvent,       \* history
  \* maintenance.js
  maintLoaded,
  maintKpis,       \* the three KPI texts
  maintRows,       \* the records of the table rows
  maintCount,      \* #maintenanceCount
  maintState,      \* #maintenanceState: "initial", "hidden" or a message
  maintPending,    \* requests issued and not yet settled
  maintEvent,      \* history
  \* signup.js
  signupLoaded,
  signupMessage,   \* "none", "required", "mismatch", "success", "error"
  signupBtnDisabled,
  signupPending,   \* the body of the outstanding signup request
  signupTimer,     \* the 1500 ms timer of the redirect is armed
  \* history of the forms
  lastForm         \* the field values of the last submitted form

routeVars ==
  <<loaded, isFetching, inflight, countdown, mapSearch, selectedBusId,
    routeState, tableRows, busMarkers, animationState, steppers,
    stationLayer, stationMarkers, panLog, mapCenter,
    lastEvent, lastBatch, pollStartIds, lastTarget, solo, passes>>

\* the state of the login page and of the guard, storage apart
sessionVars ==
  <<page, loginLoaded, loginButtonDisabled, loginMessage,
    loginPending, redirectTimer, guardPending, authRequests, currentUser,
    loginResp, authEvent, guardRead>>

authVars == <<localStorage, sessionVars>>

logsVars ==
  <<activeBuses, logRows, logState, logsLoaded, logsPending, exportPending,
    logsAlert, lastDownload, logsEvent, lastRecords>>

predictVars ==
  <<predictLoaded, predictKpis, predictChart, predictMessage,
    predictBtnDisabled, predictPending, predictEvent>>

dashVars ==
  <<dashLoaded, dashKpis, dashAlerts, alertsState, dashPending, dashEvent>>

maintVars ==
  <<maintLoaded, maintKpis, maintRows, maintCount, maintState, maintPending,
    maintEvent>>

signupVars ==
  <<signupLoaded, signupMessage, signupBtnDisabled, signupPending, signupTimer>>

viewVars == <<logsVars, predictVars, dashVars, maintVars, signupVars, lastForm>>

vars == <<routeVars, authVars, viewVars>>

\* ------------------------------------------------------------------
\* The render state that updateMap and its callees read and write
\* ------------------------------------------------------------------
RenderState ==
  [busMarkers |-> busMarkers, animationState |-> animationState,
   steppers |-> steppers, stationLayer |-> stationLayer,
   stationMarkers |-> stationMarkers, panLog |-> <<>>,
   mapCenter |-> mapCenter, exact |-> TRUE,
   lastTarget |-> lastTarget, solo |-> solo]

Has(f, k) == k \in DOMAIN f

Put(f, k, v) == [x \in (DOMAIN f) \cup {k} |-> IF x = k THEN v ELSE f[x]]

\* a fresh object identity for a marker of id: one no live closure refers to
NewObj(m, id) ==
  CHOOSE n \in 0..Len(m.steppers) :
    /\ \A k \in 1..Len(m.steppers) :
         m.steppers[k].id = id => m.steppers[k].sobj # n
    /\ \A j \in 0..(n - 1) :
         \E k \in 1..Len(m.steppers) :
           m.steppers[k].id = id /\ m.steppers[k].sobj = j

\* mutant: the closure stops one step early
stepDone_OneEarly(s) == s.i >= steps - 1

\* the guard of step: the closure has made all its steps
stepDone(s) == s.i >= steps

\* mutant: the closure looks its marker and cursor up by id on every step
StepOn_LooksUpById(m, s) ==
  IF stepDone(s) \/ ~Has(m.animationState, s.id) \/ ~Has(m.busMarkers, s.id)
  THEN m
  ELSE [m EXCEPT !.animationState[s.id].lat = @ + s.dLat,
                 !.animationState[s.id].lng = @ + s.dLng,
                 !.busMarkers[s.id].lat = m.animationState[s.id].lat + s.dLat,
                 !.busMarkers[s.id].lng = m.animationState[s.id].lng + s.dLng]

\* one invocation of the step closure s against the objects it captured:
\* a closure whose cursor object was deleted from animationState moves
\* only that unreachable object
StepOn(m, s) ==
  IF stepDone(s) THEN m
  ELSE IF Has(m.animationState, s.id) /\ m.animationState[s.id].obj = s.sobj
  THEN
    LET nlat == m.animationState[s.id].lat + s.dLat
        nlng == m.animationState[s.id].lng + s.dLng
        m1 == [m EXCEPT !.animationState[s.id].lat = nlat,
                        !.animationState[s.id].lng = nlng]
    IN IF Has(m1.busMarkers, s.id) /\ m1.busMarkers[s.id].obj = s.mobj
       THEN [m1 EXCEPT !.busMarkers[s.id].lat = nlat,
                       !.busMarkers[s.id].lng = nlng]
       ELSE m1
  ELSE m

\* animateBus(id, target): target is <<lat, lng>>
animateBus(m, id, target) ==
  IF ~Has(m.busMarkers, id) \/ ~Has(m.animationState, id) THEN m
  ELSE
    LET state == m.animationState[id]
        s == [id |-> id, mobj |-> m.busMarkers[id].obj, sobj |-> state.obj,
              target |-> target, i |-> 0,
              dLat |-> (target[1] - state.lat) \div steps,
              dLng |-> (target[2] - state.lng) \div steps]
        isExact == /\ (target[1] - state.lat) % steps = 0
                   /\ (target[2] - state.lng) % steps = 0
        m1 == StepOn(m, s)
        running == \E k \in 1..Len(m.steppers) :
                     /\ m.steppers[k].id = id
                     /\ m.steppers[k].sobj = state.obj
                     /\ ~stepDone(m.steppers[k])
    IN [m1 EXCEPT !.steppers = Append(@, [s EXCEPT !.i = 1]),
                  !.exact = @ /\ isExact,
                  !.lastTarget = Put(@, id, target),
                  !.solo = IF running THEN @ \ {id} ELSE @ \cup {id}]

\* mutant: only the selected vehicle is focused
isFocusedBus_SelectedOnly(bus, sel) == bus.bus_id = sel

isFocusedBus(bus, sel) == bus.bus_id = sel \/ bus.status = "CRITICAL"

drawBus(m, bus, sel) ==
  LET id == bus.bus_id
      lat == Val(bus.lat)
      lng == Val(bus.lng)
      isFocused == isFocusedBus(bus, sel)
      m1 == IF ~Has(m.busMarkers, id)
            THEN LET o == NewObj(m, id)
                 IN [m EXCEPT
                       !.busMarkers = Put(@, id, [lat |-> lat, lng |-> lng,
                                                  obj |-> o, focused |-> isFocused]),
                       !.animationState = Put(@, id, [lat |-> lat, lng |-> lng,
                                                      obj |-> o]),
                       !.lastTarget = Put(@, id, <<lat, lng>>),
                       !.solo = @ \ {id}]
            ELSE LET a == animateBus(m, id, <<lat, lng>>)
                 IN [a EXCEPT !.busMarkers[id].focused = isFocused]
  IN IF isFocused
     THEN [m1 EXCEPT !.panLog = Append(@, [bus_id |-> id, lat |-> lat, lng |-> lng]),
                     !.mapCenter = <<lat, lng>>]
     ELSE m1

StationMarker(s, r) == [name |-> s.name, available |-> s.available, radius |-> r]

drawOptimizedEmergencyRoute(m, bus) ==
  IF IsNull(bus.charging_station) THEN m
  ELSE LET s == Val(bus.charging_station)
       IN [m EXCEPT !.stationLayer = Append(@, StationMarker(s, 8)),
                    !.stationMarkers = @ \cup {s.name}]

drawStation(m, station) ==
  IF station.name \in m.stationMarkers THEN m
  ELSE [m EXCEPT !.stationLayer = Append(@, StationMarker(station, 6)),
                 !.stationMarkers = @ \cup {station.name}]

HasPosition(bus) == ~IsNull(bus.lat) /\ ~IsNull(bus.lng)

\* the body of the forEach of updateMap for one bus
renderBus(m, bus, sel) ==
  IF ~HasPosition(bus) THEN m
  ELSE LET m1 == drawBus(m, bus, sel)
       IN IF bus.status = "CRITICAL" /\ ~IsNull(bus.charging_station)
          THEN drawOptimizedEmergencyRoute(m1, bus)
          ELSE IF ~IsNull(bus.charging_station)
          THEN drawStation(m1, Val(bus.charging_station))
          ELSE m1

RECURSIVE renderAll(_, _, _, _)
renderAll(m, buses, k, sel) ==
  IF k > Len(buses) THEN m
  ELSE renderAll(renderBus(m, buses[k], sel), buses, k + 1, sel)

activeIdsOf(buses) ==
  { buses[k].bus_id : k \in { j \in 1..Len(buses) : HasPosition(buses[j]) } }

\* mutant: markers of vehicles missing from the batch are kept
removeInactive_KeepsAll(m, activeIds) == m

\* mutant: the marker is removed but its interpolation state is kept
removeInactive_KeepsCursor(m, activeIds) ==
  [m EXCEPT
     !.busMarkers =
        [id \in { x \in DOMAIN m.busMarkers : x \in activeIds } |-> m.busMarkers[id]]]

removeInactive(m, activeIds) ==
  [m EXCEPT
     !.busMarkers =
        [id \in { x \in DOMAIN m.busMarkers : x \in activeIds } |-> m.busMarkers[id]],
     !.animationState =
        [id \in { x \in DOMAIN m.animationState :
                    ~(Has(m.busMarkers, x) /\ x \notin activeIds) }
           |-> m.animationState[id]],
     !.lastTarget =
        [id \in { x \in DOMAIN m.lastTarget :
                    ~(Has(m.busMarkers, x) /\ x \notin activeIds) }
           |-> m.lastTarget[id]],
     !.solo = { x \in m.solo : ~(Has(m.busMarkers, x) /\ x \notin activeIds) }]

updateMap(m, buses, sel) ==
  LET cleared == [m EXCEPT !.stationLayer = <<>>]
      drawn == renderAll(cleared, buses, 1, sel)
  IN removeInactive(drawn, activeIdsOf(buses))

\* the filter of fetchRouteStatus
matchesQuery(b, q) ==
  \/ includes(toLowerCase(b.bus_id), q)
  \/ includes(toLowerCase(IF IsNull(b.charging_station) THEN <<>>
                         ELSE Val(b.charging_station).name), q)

RECURSIVE filterBuses(_, _)
filterBuses(buses, q) ==
  IF buses = <<>> THEN <<>>
  ELSE IF matchesQuery(Head(buses), q)
       THEN <<Head(buses)>> \o filterBuses(Tail(buses), q)
       ELSE filterBuses(Tail(buses), q)

\* ------------------------------------------------------------------
\* Initial state: the scripts have run, no event has been handled yet
\* ------------------------------------------------------------------
InitialCenter == <<18, 73>>

InitRoute ==
  /\ loaded = FALSE
  /\ isFetching = FALSE
  /\ inflight = 0
  /\ countdown = REFRESH_INTERVAL
  /\ mapSearch = <<>>
  /\ selectedBusId \in BusIds \cup {<<>>}   \* what storage held, or ""
  /\ routeState = "initial"
  /\ tableRows = <<>>
  /\ busMarkers = <<>>
  /\ animationState = <<>>
  /\ steppers = <<>>
  /\ stationLayer = <<>>
  /\ stationMarkers = {}
  /\ panLog = <<>>
  /\ mapCenter = InitialCenter
  /\ lastEvent = "init"
  /\ lastBatch = <<>>
  /\ pollStartIds = {}
  /\ lastTarget = <<>>
  /\ solo = {}
  /\ passes = 0

\* the KPI cards of the prediction page as the document delivers them
PredictKpi(kind, endSoc, risk, color, speed) ==
  [kind |-> kind, endSoc |-> endSoc, risk |-> risk, color |-> color,
   speed |-> speed]

\* the KPI texts of the dashboard and of the maintenance page
KpiTexts(kind, values) == [kind |-> kind, values |-> values]

\* the pages other than the route view, login and guard: nothing has run
PagesFresh ==
  /\ logRows = <<>>
  /\ logState = "initial"
  /\ logsLoaded = FALSE
  /\ logsPending = 0
  /\ exportPending = 0
  /\ logsAlert = "none"
  /\ lastDownload = None
  /\ logsEvent = "none"
  /\ lastRecords = <<>>
  /\ predictLoaded = FALSE
  /\ predictKpis = PredictKpi("initial", 0, "", "", 0)
  /\ predictChart = None
  /\ predictMessage = "initial"
  /\ predictBtnDisabled = FALSE
  /\ predictPending = None
  /\ predictEvent = "none"
  /\ dashLoaded = FALSE
  /\ dashKpis = KpiTexts("initial", <<>>)
  /\ dashAlerts = <<>>
  /\ alertsState = "initial"
  /\ dashPending = 0
  /\ dashEvent = "none"
  /\ maintLoaded = FALSE
  /\ maintKpis = KpiTexts("initial", <<>>)
  /\ maintRows = <<>>
  /\ maintCount = "initial"
  /\ maintState = "initial"
  /\ maintPending = 0
  /\ maintEvent = "none"
  /\ signupLoaded = FALSE
  /\ signupMessage = "none"
  /\ signupBtnDisabled = FALSE
  /\ signupPending = None
  /\ signupTimer = FALSE
  /\ lastForm = <<>>

\* no other page is open
ViewsClosed == PagesFresh /\ activeBuses = <<>>

\* no login or protected page is open
AuthClosed ==
  /\ page = "none"
  /\ localStorage =
       [k \in StorageKeys |->
          IF k = SELECTED_BUS_KEY /\ selectedBusId # <<>>
          THEN Some(selectedBusId) ELSE None]
  /\ loginLoaded = FALSE
  /\ loginButtonDisabled = FALSE
  /\ loginMessage = "none"
  /\ loginPending = None
  /\ redirectTimer = FALSE
  /\ guardPending = None
  /\ authRequests = 0
  /\ currentUser = None
  /\ loginResp = None
  /\ authEvent = "none"
  /\ guardRead = None

Init == InitRoute /\ AuthClosed /\ ViewsClosed

\* ------------------------------------------------------------------
\* route.js: the poll
\* ------------------------------------------------------------------
\* mutant: no re-entrancy guard
fetchRouteStatus_NoGuard ==
  /\ isFetching' = TRUE
  /\ inflight' = inflight + 1
  /\ pollStartIds' = DOMAIN busMarkers
  /\ lastEvent' = "issued"

\* a call of fetchRouteStatus up to its first await
fetchRouteStatus ==
  IF isFetching
  THEN /\ lastEvent' = "dropped"
       /\ UNCHANGED <<isFetching, inflight, pollStartIds>>
  ELSE /\ isFetching' = TRUE
       /\ inflight' = inflight + 1
       /\ pollStartIds' = DOMAIN busMarkers
       /\ lastEvent' = "issued"

renderVars ==
  <<tableRows, busMarkers, animationState, steppers, stationLayer,
    stationMarkers, panLog, mapCenter, lastBatch, lastTarget, solo, passes>>

DOMContentLoaded ==
  /\ ~loaded
  /\ loaded' = TRUE
  /\ fetchRouteStatus
  /\ UNCHANGED <<countdown, mapSearch, selectedBusId, routeState, renderVars>>
  /\ UNCHANGED <<authVars, viewVars>>

\* the setInterval callback
Tick ==
  /\ loaded
  /\ countdown > 0 - MaxOverdue
  /\ countdown' = countdown - 1
  /\ IF countdown' <= 0
     THEN fetchRouteStatus
     ELSE /\ lastEvent' = "tick"
          /\ UNCHANGED <<isFetching, inflight, pollStartIds>>
  /\ UNCHANGED <<loaded, mapSearch, selectedBusId, routeState, renderVars>>
  /\ UNCHANGED <<authVars, viewVars>>

\* the input listener of #mapSearch
FilterInput ==
  /\ loaded
  /\ \E v \in Queries :
       /\ v # mapSearch
       /\ mapSearch' = v
  /\ fetchRouteStatus
  /\ UNCHANGED <<loaded, countdown, selectedBusId, routeState, renderVars>>
  /\ UNCHANGED <<authVars, viewVars>>

\* routeWindow.fetchRouteStatus(...) called by the logs window
LogsWindowCall ==
  /\ loaded
  /\ fetchRouteStatus
  /\ UNCHANGED <<loaded, countdown, mapSearch, selectedBusId, routeState,
                 renderVars>>
  /\ UNCHANGED <<authVars, viewVars>>

\* the request settles with a parsed body whose success flag is set
PollSuccess(batches, maxPasses) ==
  /\ inflight > 0
  /\ passes < maxPasses
  /\ passes' = passes + 1
  /\ \E batch \in batches :
     \E filtered \in {filterBuses(batch, toLowerCase(mapSearch))} :
     \E m \in {updateMap(RenderState, filtered, selectedBusId)} :
          /\ m.exact
          /\ tableRows' = filtered
          /\ busMarkers' = m.busMarkers
          /\ animationState' = m.animationState
          /\ steppers' = m.steppers
          /\ stationLayer' = m.stationLayer
          /\ stationMarkers' = m.stationMarkers
          /\ panLog' = m.panLog
          /\ mapCenter' = m.mapCenter
          /\ lastTarget' = m.lastTarget
          /\ solo' = m.solo
          /\ lastBatch' = batch
  /\ routeState' = "hidden"
  /\ isFetching' = FALSE
  /\ countdown' = REFRESH_INTERVAL
  /\ inflight' = inflight - 1
  /\ lastEvent' = "success"
  /\ UNCHANGED <<loaded, mapSearch, selectedBusId, pollStartIds>>
  /\ UNCHANGED <<authVars, viewVars>>

\* mutant: the catch block clears the markers
PollFail_ClearsMarkers ==
  /\ inflight > 0
  /\ lastEvent' = "fail"
  /\ routeState' = "shown"
  /\ isFetching' = FALSE
  /\ countdown' = REFRESH_INTERVAL
  /\ inflight' = inflight - 1
  /\ busMarkers' = <<>>
  /\ animationState' = <<>>
  /\ UNCHANGED <<loaded, mapSearch, selectedBusId, pollStartIds, tableRows,
                 steppers, stationLayer, stationMarkers, panLog, mapCenter,
                 lastBatch, lastTarget, solo, passes>>
  /\ UNCHANGED <<authVars, viewVars>>

\* mutant: the finally block does not reset the countdown
PollFail_KeepsCountdown ==
  /\ inflight > 0
  /\ lastEvent' = "fail"
  /\ routeState' = "shown"
  /\ isFetching' = FALSE
  /\ inflight' = inflight - 1
  /\ UNCHANGED <<loaded, countdown, mapSearch, selectedBusId, pollStartIds,
                 renderVars>>
  /\ UNCHANGED <<authVars, viewVars>>

\* the request settles by rejecting, with an unparsable body, or with a
\* body whose success flag is not set: each ends in the catch block
PollFail ==
  /\ inflight > 0
  /\ lastEvent' = "fail"
  /\ routeState' = "shown"
  /\ isFetching' = FALSE
  /\ countdown' = REFRESH_INTERVAL
  /\ inflight' = inflight - 1
  /\ UNCHANGED <<loaded, mapSearch, selectedBusId, pollStartIds, renderVars>>
  /\ UNCHANGED <<authVars, viewVars>>

\* the onclick of a table row
RowClick ==
  /\ \E k \in 1..Len(tableRows) :
       LET bus == tableRows[k]
       IN /\ selectedBusId' = bus.bus_id
          /\ mapCenter' = IF HasPosition(bus)
                          THEN <<Val(bus.lat), Val(bus.lng)>>
                          ELSE mapCenter
  /\ lastEvent' = "click"
  /\ UNCHANGED <<loaded, isFetching, inflight, countdown, mapSearch, routeState,
                 tableRows, busMarkers, animationState, steppers, stationLayer,
                 stationMarkers, panLog, lastBatch, pollStartIds, lastTarget,
                 solo, passes>>
  /\ localStorage' = [localStorage EXCEPT ![SELECTED_BUS_KEY] = Some(selectedBusId')]
  /\ UNCHANGED <<sessionVars, viewVars>>

\* one animation frame: every registered step callback runs once, in order
RECURSIVE runFrame(_, _, _)
runFrame(m, queue, k) ==
  IF k > Len(queue) THEN m
  ELSE LET s == queue[k]
       IN IF stepDone(s)
          THEN runFrame(m, queue, k + 1)
          ELSE runFrame([StepOn(m, s) EXCEPT
                           !.steppers = Append(@, [s EXCEPT !.i = s.i + 1])],
                        queue, k + 1)

Frame ==
  /\ steppers # <<>>
  /\ \E m \in {runFrame([RenderState EXCEPT !.steppers = <<>>], steppers, 1)} :
        /\ busMarkers' = m.busMarkers
        /\ animationState' = m.animationState
        /\ steppers' = m.steppers
  /\ lastEvent' = "frame"
  /\ UNCHANGED <<loaded, isFetching, inflight, countdown, mapSearch,
                 selectedBusId, routeState, tableRows, stationLayer,
                 stationMarkers, panLog, mapCenter, lastBatch, pollStartIds,
                 lastTarget, solo, passes>>
  /\ UNCHANGED <<authVars, viewVars>>

\* the map: reconciliation of markers and stations with the responses
NextMap ==
  \/ DOMContentLoaded
  \/ FilterInput
  \/ LogsWindowCall
  \/ PollSuccess(MapBatches, MaxMapPasses)
  \/ PollFail
  \/ RowClick

SpecMap == Init /\ [][NextMap]_vars

\* the interpolation of one marker
NextAnim ==
  \/ DOMContentLoaded
  \/ LogsWindowCall
  \/ PollSuccess(AnimBatches, MaxAnimPasses)
  \/ PollFail
  \/ Frame

SpecAnim == Init /\ [][NextAnim]_vars

\* the life of one marker: created, interpolated, removed, created again
InitLife == Init /\ selectedBusId = <<>>

NextLife ==
  \/ DOMContentLoaded
  \/ LogsWindowCall
  \/ PollSuccess(AnimBatches, MaxLifePasses)
  \/ Frame

SpecLife == InitLife /\ [][NextLife]_vars

\* the poll cycle: countdown timer, callers and the re-entrancy guard
NextPoll ==
  \/ DOMContentLoaded
  \/ Tick
  \/ FilterInput
  \/ LogsWindowCall
  \/ PollSuccess(PollBatches, MaxPollPasses)
  \/ PollFail

SpecPoll == Init /\ [][NextPoll]_vars

\* an outstanding telemetry request settles, one way or the other
Settle == PollSuccess(PollBatches, MaxPollPasses) \/ PollFail

\* the poll cycle with a timer that keeps firing and requests that settle;
\* nothing is assumed about filter input or the logs window
SpecPollFair ==
  /\ Init
  /\ [][NextPoll]_vars
  /\ WF_vars(Tick)
  /\ WF_vars(Settle)

\* ------------------------------------------------------------------
\* login.js and authGuard.js
\* ------------------------------------------------------------------
\* String.prototype.trim on a character sequence
RECURSIVE trimStart(_)
trimStart(s) ==
  IF s # <<>> /\ Head(s) = " " THEN trimStart(Tail(s)) ELSE s

RECURSIVE trimEnd(_)
trimEnd(s) ==
  IF s # <<>> /\ s[Len(s)] = " " THEN trimEnd(SubSeq(s, 1, Len(s) - 1)) ELSE s

trim(s) == trimEnd(trimStart(s))

\* truthiness of a string that may be absent
Truthy(o) == ~IsNull(o) /\ Val(o) # ""

getItem(k) == localStorage[k]

\* the variables of the route view and of the other pages, which these
\* pages do not touch
routeUnchanged == UNCHANGED <<routeVars, viewVars>>

\* a navigation: the new document starts with fresh page state
Navigate(p) ==
  /\ page' = p
  /\ loginLoaded' = FALSE
  /\ loginButtonDisabled' = FALSE
  /\ loginMessage' = "none"
  /\ loginPending' = None
  /\ redirectTimer' = FALSE
  /\ guardPending' = None
  /\ authRequests' = 0
  /\ currentUser' = None

\* the login page or a protected page is opened, with whatever the durable
\* storage holds under the guard's key
InitAuth ==
  /\ page \in {"login", "index"}
  /\ localStorage \in
       { [k \in StorageKeys |-> IF k = GUARD_TOKEN_KEY THEN t ELSE None] :
           t \in {None, Some("old")} }
  /\ loginLoaded = FALSE
  /\ loginButtonDisabled = FALSE
  /\ loginMessage = "none"
  /\ loginPending = None
  /\ redirectTimer = FALSE
  /\ guardPending = None
  /\ authRequests = 0
  /\ currentUser = None
  /\ loginResp = None
  /\ authEvent = "none"
  /\ guardRead = None

\* the route view is not open
RouteClosed == InitRoute /\ selectedBusId = <<>>

InitSession == InitAuth /\ RouteClosed /\ ViewsClosed

\* login.js: the DOMContentLoaded handler, with the auto-redirect
LoginPageLoad ==
  /\ page = "login"
  /\ ~loginLoaded
  /\ IF Truthy(getItem(LOGIN_TOKEN_KEY))
     THEN Navigate("index")
     ELSE /\ loginLoaded' = TRUE
          /\ UNCHANGED <<page, loginButtonDisabled, loginMessage, loginPending,
                         redirectTimer, guardPending, authRequests, currentUser>>
  /\ UNCHANGED <<localStorage, loginResp, authEvent, guardRead>>
  /\ routeUnchanged

\* loginUser up to its first await
LoginSubmit ==
  /\ page = "login"
  /\ loginLoaded
  /\ ~loginButtonDisabled
  /\ \E emailField \in FieldValues, passwordField \in FieldValues :
       LET email == trim(emailField)
           password == trim(passwordField)
       IN /\ lastForm' = <<emailField, passwordField>>
          /\ IF email = <<>> \/ password = <<>>
             THEN /\ loginMessage' = "validation"
                  /\ UNCHANGED <<loginButtonDisabled, loginPending>>
             ELSE /\ loginMessage' = "none"
                  /\ loginButtonDisabled' = TRUE
                  /\ loginPending' = Some([email |-> email, password |-> password])
  /\ UNCHANGED <<page, localStorage, loginLoaded, redirectTimer, guardPending,
                 authRequests, currentUser, loginResp, authEvent, guardRead>>
  /\ UNCHANGED <<routeVars, logsVars, predictVars, dashVars, maintVars,
                 signupVars>>

\* mutant: a response without a token is taken for a success
loginRejected_IgnoresToken(res) == ~res.ok \/ ~res.success

loginRejected(res) == ~res.ok \/ ~res.success \/ ~Truthy(res.token)

\* the profile written under evfleet_user
storedUser(res, email) ==
  [name |-> Val(res.user).name, role |-> Val(res.user).role,
   email |-> IF IsNull(Val(res.user).email) \/ Val(Val(res.user).email) = <<>>
             THEN email ELSE Val(Val(res.user).email)]

\* loginUser after the response was parsed
LoginResponse ==
  /\ page = "login"
  /\ ~IsNull(loginPending)
  /\ \E res \in LoginResponses :
       /\ loginResp' = Some(res)
       /\ IF loginRejected(res)
          THEN /\ loginMessage' = "failed"
               /\ loginButtonDisabled' = FALSE
               /\ UNCHANGED <<localStorage, redirectTimer, authEvent>>
          ELSE IF IsNull(res.user)
          THEN \* data.user.name throws after the token was stored
               /\ localStorage' =
                    [localStorage EXCEPT ![LOGIN_TOKEN_KEY] = res.token]
               /\ loginMessage' = "server"
               /\ loginButtonDisabled' = FALSE
               /\ authEvent' = "none"
               /\ UNCHANGED redirectTimer
          ELSE /\ localStorage' =
                    [localStorage EXCEPT
                       ![LOGIN_TOKEN_KEY] = res.token,
                       ![LOGIN_USER_KEY] =
                          Some(storedUser(res, Val(loginPending).email))]
               /\ loginMessage' = "success"
               /\ redirectTimer' = TRUE
               /\ authEvent' = "none"
               /\ UNCHANGED loginButtonDisabled
  /\ loginPending' = None
  /\ UNCHANGED <<page, loginLoaded, guardPending, authRequests, currentUser,
                 guardRead>>
  /\ routeUnchanged

\* fetch rejects or the body is not JSON
LoginError ==
  /\ page = "login"
  /\ ~IsNull(loginPending)
  /\ loginPending' = None
  /\ loginMessage' = "server"
  /\ loginButtonDisabled' = FALSE
  /\ UNCHANGED <<page, localStorage, loginLoaded, redirectTimer, guardPending,
                 authRequests, currentUser, loginResp, authEvent, guardRead>>
  /\ routeUnchanged

\* the setTimeout callback of the redirect
RedirectTimer ==
  /\ page = "login"
  /\ redirectTimer
  /\ Navigate("index")
  /\ UNCHANGED <<localStorage, loginResp, authEvent, guardRead>>
  /\ routeUnchanged

\* the guard found no user: requireAuth and requireRole alike
denyAccess(event) ==
  /\ localStorage' = [localStorage EXCEPT ![GUARD_TOKEN_KEY] = None]
  /\ Navigate("login")
  /\ authEvent' = event

\* requireAuth / requireRole up to the await in getCurrentUser;
\* roles is None for requireAuth
GuardCall ==
  /\ page = "index"
  /\ IsNull(guardPending)
  /\ authRequests < MaxGuardCalls
  /\ \E roles \in {None} \cup { Some(r) : r \in RoleSets } :
       LET token == getItem(GUARD_TOKEN_KEY)
       IN /\ guardRead' = token
          /\ IF ~Truthy(token)
             THEN denyAccess("missing")
             ELSE /\ guardPending' = Some([token |-> Val(token), roles |-> roles])
                  /\ authRequests' = authRequests + 1
                  /\ authEvent' = "sent"
                  /\ UNCHANGED <<page, localStorage, loginLoaded,
                                 loginButtonDisabled, loginMessage, loginPending,
                                 redirectTimer, currentUser>>
  /\ UNCHANGED loginResp
  /\ routeUnchanged

\* mutant: the status of the response is not looked at
getCurrentUser_IgnoresStatus(res) == res.body

\* what getCurrentUser returns for a response
getCurrentUser(res) == IF ~res.ok THEN None ELSE res.body

\* the guard call after /api/auth/me answered
GuardResponse ==
  /\ page = "index"
  /\ ~IsNull(guardPending)
  /\ \E res \in MeResponses :
       LET user == getCurrentUser(res)
           roles == Val(guardPending).roles
       IN IF IsNull(user)
          THEN denyAccess("rejected")
          ELSE IF ~IsNull(roles) /\ Val(user).role \notin Val(roles)
          THEN /\ Navigate("back")
               /\ authEvent' = "forbidden"
               /\ UNCHANGED localStorage
          ELSE /\ currentUser' = user
               /\ guardPending' = None
               /\ authEvent' = "admitted"
               /\ UNCHANGED <<page, localStorage, loginLoaded,
                              loginButtonDisabled, loginMessage, loginPending,
                              redirectTimer, authRequests>>
  /\ UNCHANGED <<loginResp, guardRead>>
  /\ routeUnchanged

\* the /api/auth/me request fails
GuardError ==
  /\ page = "index"
  /\ ~IsNull(guardPending)
  /\ denyAccess("failed")
  /\ UNCHANGED <<loginResp, guardRead>>
  /\ routeUnchanged

\* logoutUser
Logout ==
  /\ page = "index"
  /\ localStorage' = [localStorage EXCEPT ![GUARD_TOKEN_KEY] = None]
  /\ Navigate("login")
  /\ authEvent' = "logout"
  /\ UNCHANGED <<loginResp, guardRead>>
  /\ routeUnchanged

NextAuth ==
  \/ LoginPageLoad
  \/ LoginSubmit
  \/ LoginResponse
  \/ LoginError
  \/ RedirectTimer
  \/ GuardCall
  \/ GuardResponse
  \/ GuardError
  \/ Logout

\* the redirect timer, once armed, fires
SpecAuth ==
  /\ InitSession
  /\ [][NextAuth]_vars
  /\ WF_vars(RedirectTimer)

\* a browser whose storage is empty when the first page is opened: what
\* storage holds comes from these pages alone, and no /api/auth/me request
\* is ever outstanding
InitFreshSession == InitSession /\ IsNull(localStorage[GUARD_TOKEN_KEY])

NextFreshSession ==
  \/ LoginPageLoad
  \/ LoginSubmit
  \/ LoginResponse
  \/ LoginError
  \/ RedirectTimer
  \/ GuardCall
  \/ Logout

SpecFreshSession ==
  /\ InitFreshSession
  /\ [][NextFreshSession]_vars
  /\ WF_vars(RedirectTimer)

\* ------------------------------------------------------------------
\* Numbers as the page controllers handle them.  A number is kept in
\* hundredths (0.92 is 92, 55 is 5500); NaN is a value of its own.
\* ------------------------------------------------------------------
Scale == 100

Number(n) == [nan |-> FALSE, n |-> n]

NaN == [nan |-> TRUE, n |-> 0]

Pct(p) == Number(p * Scale)

Text(chars) == [text |-> chars]

IsText(v) == DOMAIN v = {"text"}

DigitVal(c) ==
  CASE c = "0" -> 0 [] c = "1" -> 1 [] c = "2" -> 2 [] c = "3" -> 3
    [] c = "4" -> 4 [] c = "5" -> 5 [] c = "6" -> 6 [] c = "7" -> 7
    [] c = "8" -> 8 [] c = "9" -> 9 [] OTHER -> 0 - 1

IsDigit(c) == DigitVal(c) >= 0

\* the longest prefix of digits of s
RECURSIVE digitPrefix(_)
digitPrefix(s) ==
  IF s # <<>> /\ IsDigit(Head(s)) THEN <<Head(s)>> \o digitPrefix(Tail(s))
  ELSE <<>>

RECURSIVE digitsValue(_)
digitsValue(d) ==
  IF d = <<>> THEN 0 ELSE 10 * digitsValue(SubSeq(d, 1, Len(d) - 1)) + DigitVal(d[Len(d)])

\* parseFloat of a string: leading blanks are skipped, the longest numeric
\* prefix (digits, then "." and digits) is read, the rest is ignored
parseFloatText(chars) ==
  LET s == trimStart(chars)
      int == digitPrefix(s)
      rest == SubSeq(s, Len(int) + 1, Len(s))
      frac == IF rest # <<>> /\ Head(rest) = "." THEN digitPrefix(Tail(rest))
              ELSE <<>>
      frac2 == SubSeq(frac \o <<"0", "0">>, 1, 2)
  IN IF int = <<>> /\ frac = <<>> THEN NaN
     ELSE Number(digitsValue(int) * Scale + digitsValue(frac2))

\* parseFloat of a value of a JSON body: a number reads back as itself
parseFloat(v) == IF IsText(v) THEN parseFloatText(v.text) ELSE v

\* Number.prototype.toFixed(1) read back by parseFloat: rounding to tenths
toFixed1(x) ==
  IF x.nan THEN NaN
  ELSE IF x.n >= 0 THEN Number(((x.n + 5) \div 10) * 10)
  ELSE Number(0 - (((0 - x.n) + 5) \div 10) * 10)

\* x >= p for a percentage p; every comparison with NaN is false
AtLeast(x, p) == ~x.nan /\ x.n >= p * Scale

\* ------------------------------------------------------------------
\* logs.js
\* ------------------------------------------------------------------
\* the normalisation of loadLogs: a value up to 1 is taken for a fraction
normalizeSoh(x) ==
  toFixed1(IF ~x.nan /\ x.n <= 1 * Scale THEN Number(x.n * 100) ELSE x)

getStatusAndIssues(sohPercent) ==
  IF AtLeast(sohPercent, 90) THEN [status |-> "Good", issues |-> 0]
  ELSE IF AtLeast(sohPercent, 60) THEN [status |-> "Proper", issues |-> 0]
  ELSE IF AtLeast(sohPercent, 50) THEN [status |-> "Attention", issues |-> 1]
  ELSE [status |-> "Critical", issues |-> 1]

statusClass(soh) ==
  IF AtLeast(soh, 90) THEN "status-green"
  ELSE IF AtLeast(soh, 50) THEN "status-yellow"
  ELSE "status-red"

\* new Date(d).toLocaleString()
toLocaleString(d) == <<"local", d>>

\* r.soh ?? r.predicted_soh ?? 0
reportedSoh(r) ==
  IF ~IsNull(r.soh) THEN Val(r.soh)
  ELSE IF ~IsNull(r.predicted_soh) THEN Val(r.predicted_soh)
  ELSE Number(0)

\* the bus object loadLogs builds from a record
busObj(r) ==
  LET sohPercent == normalizeSoh(parseFloat(reportedSoh(r)))
      c == getStatusAndIssues(sohPercent)
  IN [bus_id |-> r.bus_id, soh |-> sohPercent, status |-> c.status,
      issues |-> c.issues,
      maintenance_due |-> IF IsNull(r.maintenance_due) THEN <<"-">>
                          ELSE toLocaleString(Val(r.maintenance_due)),
      predicted_soh |-> sohPercent]

\* activeBuses.findIndex(b => b.bus_id === id), 0 when there is none
findIndex(list, id) ==
  IF \E i \in 1..Len(list) : list[i].bus_id = id
  THEN CHOOSE i \in 1..Len(list) :
         /\ list[i].bus_id = id
         /\ \A j \in 1..(i - 1) : list[j].bus_id # id
  ELSE 0

\* mutant: every record is appended
mergeRecord_AlwaysAppends(list, r) == Append(list, busObj(r))

mergeRecord(list, r) ==
  LET index == findIndex(list, r.bus_id)
  IN IF index = 0 THEN Append(list, busObj(r))
     ELSE [list EXCEPT ![index] = busObj(r)]

RECURSIVE mergeRecords(_, _)
mergeRecords(list, records) ==
  IF records = <<>> THEN list
  ELSE mergeRecords(mergeRecord(list, Head(records)), Tail(records))

\* activeBuses.filter(b => b.bus_id !== id)
RECURSIVE withoutBus(_, _)
withoutBus(list, id) ==
  IF list = <<>> THEN <<>>
  ELSE IF Head(list).bus_id # id
       THEN <<Head(list)>> \o withoutBus(Tail(list), id)
       ELSE withoutBus(Tail(list), id)

\* JSON.stringify of the list: NaN is written as null
JsonNull == [null |-> TRUE]

stringify(list) ==
  [i \in 1..Len(list) |->
     [list[i] EXCEPT !.soh = IF @ = NaN THEN JsonNull ELSE @,
                     !.predicted_soh = IF @ = NaN THEN JsonNull ELSE @]]

\* JSON.parse(localStorage.getItem("activeBuses") || "[]")
parseActiveBuses(item) == IF IsNull(item) THEN <<>> ELSE Val(item)

\* records of GET /api/logs
LogRecord(id, soh, predicted, due) ==
  [bus_id |-> id, soh |-> soh, predicted_soh |-> predicted,
   maintenance_due |-> due]

LogsBody(ok, success, records) ==
  [ok |-> ok, success |-> success, records |-> records]

\* the responses that are not merged: HTTP error, failure flag, no data,
\* no records
LogsFailures ==
  { LogsBody(FALSE, TRUE, None), LogsBody(TRUE, FALSE, None),
    LogsBody(TRUE, TRUE, None), LogsBody(TRUE, TRUE, Some(<<>>)) }

\* one record per response, every whole percentage and some fractions
MaxSoh == 100

ClassifyRecords ==
  { LogRecord(B1, Some(Pct(p)), None, None) : p \in 0..MaxSoh }
  \cup { LogRecord(B1, Some(Number(f)), None, None) : f \in {40, 55, 92} }
  \cup { LogRecord(B1, Some(Number(5996)), None, None),
         LogRecord(B1, None, Some(Pct(92)), None),
         LogRecord(B1, None, None, None),
         LogRecord(B1, Some(Text(<<"9", "2">>)), None, None),
         LogRecord(B1, Some(Text(<<"a">>)), None, None) }

ClassifyResponses ==
  LogsFailures \cup { LogsBody(TRUE, TRUE, Some(<<r>>)) : r \in ClassifyRecords }

\* what the user types into #busId
BusIdFields == { <<>>, <<" ">>, B1 }

MaxLogRequests == 2

\* showState(message): the box shows the message and the table is emptied
showLogState(message) ==
  /\ logState' = message
  /\ logRows' = <<>>

renderLogsTable(list) ==
  IF list = <<>>
  THEN showLogState("No active buses")
  ELSE /\ logState' = "hidden"
       /\ logRows' = list

\* the parts of the route view a call from this window leaves alone
routeRest ==
  <<loaded, countdown, mapSearch, selectedBusId, routeState, renderVars>>

\* if (routeWindow && routeWindow.fetchRouteStatus) routeWindow.fetchRouteStatus(..)
callRouteWindow ==
  /\ IF loaded THEN fetchRouteStatus
     ELSE UNCHANGED <<isFetching, inflight, pollStartIds, lastEvent>>
  /\ UNCHANGED routeRest

\* the lists storage may hold when the logs page is opened
StoredLists ==
  { <<>>, <<busObj(LogRecord(B2, Some(Pct(92)), None, None))>> }

\* the variables of the other pages
logsOnly == UNCHANGED <<predictVars, dashVars, maintVars, signupVars>>

\* the DOMContentLoaded handler
LogsPageLoad ==
  /\ page = "logs"
  /\ ~logsLoaded
  /\ logsLoaded' = TRUE
  /\ IF activeBuses # <<>> THEN renderLogsTable(activeBuses)
     ELSE UNCHANGED <<logRows, logState>>
  /\ logsEvent' = "load"
  /\ UNCHANGED <<activeBuses, logsPending, exportPending, logsAlert,
                 lastDownload, lastRecords, lastForm>>
  /\ UNCHANGED <<routeVars, authVars>>
  /\ logsOnly

\* loadLogs up to its first await
LogsSubmit ==
  /\ page = "logs"
  /\ logsLoaded
  /\ logsPending < MaxLogRequests
  /\ \E field \in BusIdFields :
       LET busId == trim(field)
       IN /\ lastForm' = <<field>>
          /\ IF busId = <<>>
             THEN /\ showLogState("Please enter a Bus ID")
                  /\ logsEvent' = "validation"
                  /\ UNCHANGED logsPending
             ELSE /\ showLogState("Fetching logs")
                  /\ logsEvent' = "issued"
                  /\ logsPending' = logsPending + 1
  /\ UNCHANGED <<activeBuses, logsLoaded, exportPending, logsAlert,
                 lastDownload, lastRecords>>
  /\ UNCHANGED <<routeVars, authVars>>
  /\ logsOnly

\* loadLogs after the response arrived
LogsResponse(responses) ==
  /\ page = "logs"
  /\ logsPending > 0
  /\ logsPending' = logsPending - 1
  /\ \E res \in responses :
       IF ~res.ok \/ (res.success /\ IsNull(res.records))
       THEN \* throw new Error(HTTP ..), or data.data.records is undefined
            /\ showLogState("Error loading logs")
            /\ logsEvent' = "error"
            /\ UNCHANGED <<activeBuses, localStorage, lastRecords>>
            /\ UNCHANGED routeVars
       ELSE IF ~res.success \/ Val(res.records) = <<>>
       THEN /\ showLogState("No records found")
            /\ logsEvent' = "norecords"
            /\ UNCHANGED <<activeBuses, localStorage, lastRecords>>
            /\ UNCHANGED routeVars
       ELSE /\ activeBuses' = mergeRecords(activeBuses, Val(res.records))
            /\ localStorage' =
                 [localStorage EXCEPT
                    ![ACTIVE_BUSES_KEY] = Some(stringify(activeBuses'))]
            /\ renderLogsTable(activeBuses')
            /\ callRouteWindow
            /\ logsEvent' = "loaded"
            /\ lastRecords' = Val(res.records)
  /\ UNCHANGED <<logsLoaded, exportPending, logsAlert, lastDownload, lastForm>>
  /\ UNCHANGED sessionVars
  /\ logsOnly

\* fetch rejects or the body is not JSON
LogsError ==
  /\ page = "logs"
  /\ logsPending > 0
  /\ logsPending' = logsPending - 1
  /\ showLogState("Error loading logs")
  /\ logsEvent' = "error"
  /\ UNCHANGED <<activeBuses, logsLoaded, exportPending, logsAlert,
                 lastDownload, lastRecords, lastForm>>
  /\ UNCHANGED <<routeVars, authVars>>
  /\ logsOnly

\* the click handler of a row's bus-id cell
BusCellClick ==
  /\ page = "logs"
  /\ \E k \in 1..Len(logRows) :
       localStorage' =
         [localStorage EXCEPT ![SELECTED_BUS_KEY] = Some(logRows[k].bus_id)]
  /\ callRouteWindow
  /\ logsEvent' = "select"
  /\ UNCHANGED <<activeBuses, logRows, logState, logsLoaded, logsPending,
                 exportPending, logsAlert, lastDownload, lastRecords, lastForm>>
  /\ UNCHANGED sessionVars
  /\ logsOnly

\* the click handler of a row's remove button
RemoveBus ==
  /\ page = "logs"
  /\ \E k \in 1..Len(logRows) :
       activeBuses' = withoutBus(activeBuses, logRows[k].bus_id)
  /\ localStorage' =
       [localStorage EXCEPT ![ACTIVE_BUSES_KEY] = Some(stringify(activeBuses'))]
  /\ renderLogsTable(activeBuses')
  /\ callRouteWindow
  /\ logsEvent' = "removed"
  /\ UNCHANGED <<logsLoaded, logsPending, exportPending, logsAlert,
                 lastDownload, lastRecords, lastForm>>
  /\ UNCHANGED sessionVars
  /\ logsOnly

\* the click handler of #closeLogs
CloseAll ==
  /\ page = "logs"
  /\ logsLoaded
  /\ logsEvent # "closed"
  /\ activeBuses' = <<>>
  /\ localStorage' = [localStorage EXCEPT ![ACTIVE_BUSES_KEY] = None]
  /\ renderLogsTable(activeBuses')
  /\ callRouteWindow
  /\ logsEvent' = "closed"
  /\ UNCHANGED <<logsLoaded, logsPending, exportPending, logsAlert,
                 lastDownload, lastRecords, lastForm>>
  /\ UNCHANGED sessionVars
  /\ logsOnly

\* texts of GET /api/logs?export=true
CsvTexts == { <<>>, <<" ">>, <<"c">> }

\* exportCSV up to its first await
ExportSubmit ==
  /\ page = "logs"
  /\ logsLoaded
  /\ exportPending < MaxLogRequests
  /\ \E field \in BusIdFields :
       /\ lastForm' = <<field>>
       /\ IF trim(field) = <<>>
          THEN /\ logsAlert' = "Please enter a Bus ID to export telemetry"
               /\ logsEvent' = "export-validation"
               /\ UNCHANGED exportPending
          ELSE /\ exportPending' = exportPending + 1
               /\ logsEvent' = "export-issued"
               /\ UNCHANGED logsAlert
  /\ UNCHANGED <<activeBuses, logRows, logState, logsLoaded, logsPending,
                 lastDownload, lastRecords>>
  /\ UNCHANGED <<routeVars, authVars>>
  /\ logsOnly

\* exportCSV after the response arrived, or after fetch rejected
ExportResponse ==
  /\ page = "logs"
  /\ exportPending > 0
  /\ exportPending' = exportPending - 1
  /\ \E ok \in BOOLEAN, csvText \in CsvTexts :
       IF ~ok
       THEN /\ logsAlert' = "Failed to export CSV"
            /\ logsEvent' = "export-failed"
            /\ UNCHANGED lastDownload
       ELSE IF trim(csvText) = <<>>
       THEN /\ logsAlert' = "No telemetry records to export"
            /\ logsEvent' = "export-empty"
            /\ UNCHANGED lastDownload
       ELSE /\ lastDownload' = Some(csvText)
            /\ logsEvent' = "export-done"
            /\ UNCHANGED logsAlert
  /\ UNCHANGED <<activeBuses, logRows, logState, logsLoaded, logsPending,
                 lastRecords, lastForm>>
  /\ UNCHANGED <<routeVars, authVars>>
  /\ logsOnly

\* the classification of loaded records
NextClassify ==
  \/ LogsPageLoad
  \/ LogsSubmit
  \/ LogsResponse(ClassifyResponses)
  \/ LogsError
  \/ RemoveBus
  \/ CloseAll

\* the logs page is opened with whatever list storage holds
InitLogs ==
  /\ RouteClosed
  /\ PagesFresh
  /\ page = "logs"
  /\ \E list \in StoredLists :
       /\ localStorage =
            [k \in StorageKeys |->
               IF k = ACTIVE_BUSES_KEY /\ list # <<>>
               THEN Some(stringify(list)) ELSE None]
       /\ activeBuses = parseActiveBuses(localStorage[ACTIVE_BUSES_KEY])
  /\ loginLoaded = FALSE
  /\ loginButtonDisabled = FALSE
  /\ loginMessage = "none"
  /\ loginPending = None
  /\ redirectTimer = FALSE
  /\ guardPending = None
  /\ authRequests = 0
  /\ currentUser = None
  /\ loginResp = None
  /\ authEvent = "none"
  /\ guardRead = None

SpecClassify == InitLogs /\ [][NextClassify]_vars

\* ------------------------------------------------------------------
\* prediction.js
\* ------------------------------------------------------------------
RouteFields == { <<>>, <<" ">>, <<"r">> }

PassengerFields == { <<>>, <<"a">>, <<"4">>, <<"4", "a">>, <<" ", "4">> }

WeatherFields == { <<>>, <<"s">> }

\* json.data of POST /api/prediction/predict
PredictResult(soc, speed, risk, curve) ==
  [predicted_end_soc |-> soc, recommended_speed |-> speed,
   risk_level |-> risk, energy_curve |-> curve]

PredictResults ==
  { PredictResult(40, 30, "CRITICAL", Some(<<[distance |-> 0, soc |-> 95]>>)),
    PredictResult(80, 50, "LOW", Some(<<>>)),
    PredictResult(60, 40, "WARNING", None) }

PredictResponses ==
  [ok : BOOLEAN, success : BOOLEAN,
   data : {None} \cup { Some(r) : r \in PredictResults }]

otherThanPredict ==
  UNCHANGED <<routeVars, authVars, logsVars, dashVars, maintVars, signupVars>>

\* the DOMContentLoaded handler binds the click listener
PredictPageLoad ==
  /\ page = "prediction"
  /\ ~predictLoaded
  /\ predictLoaded' = TRUE
  /\ predictEvent' = "load"
  /\ UNCHANGED <<predictKpis, predictChart, predictMessage, predictBtnDisabled,
                 predictPending, lastForm>>
  /\ otherThanPredict

\* predictTrip up to its first await
PredictSubmit ==
  /\ page = "prediction"
  /\ predictLoaded
  /\ ~predictBtnDisabled
  /\ \E routeField \in RouteFields, passengersField \in PassengerFields,
        weatherField \in WeatherFields :
       LET payload == [route_id |-> trim(routeField),
                       passenger_load |-> parseFloatText(passengersField),
                       weather |-> weatherField]
       IN /\ lastForm' = <<routeField, passengersField, weatherField>>
          /\ IF payload.route_id = <<>> \/ payload.passenger_load.nan
                \/ payload.weather = <<>>
             THEN /\ predictMessage' = "validation"
                  /\ predictEvent' = "validation"
                  /\ UNCHANGED <<predictBtnDisabled, predictPending>>
             ELSE \* setLoadingState(true)
                  /\ predictBtnDisabled' = TRUE
                  /\ predictMessage' = "info"
                  /\ predictPending' = Some(payload)
                  /\ predictEvent' = "issued"
  /\ UNCHANGED <<predictLoaded, predictKpis, predictChart>>
  /\ otherThanPredict

riskColor(risk) ==
  IF risk = "CRITICAL" THEN "#ef4444"
  ELSE IF risk = "WARNING" THEN "#f59e0b"
  ELSE "#10b981"

updateKPIs(data) ==
  PredictKpi("value", data.predicted_end_soc, data.risk_level,
             riskColor(data.risk_level), data.recommended_speed)

resetKPIs(kpis) == PredictKpi("placeholder", 0, "--", "inherit", 0)

\* the catch block and the finally block of predictTrip
predictFailed(event) ==
  /\ predictMessage' = "error"
  /\ predictKpis' = resetKPIs(predictKpis)
  /\ predictBtnDisabled' = FALSE
  /\ predictEvent' = event

\* predictTrip after the body was parsed
PredictResponse ==
  /\ page = "prediction"
  /\ ~IsNull(predictPending)
  /\ predictPending' = None
  /\ \E res \in PredictResponses :
       IF ~res.ok \/ ~res.success \/ IsNull(res.data)
       THEN \* thrown by the test, or by updateKPIs(undefined)
            /\ predictFailed(IF ~res.ok \/ ~res.success THEN "failed"
                             ELSE "threw")
            /\ UNCHANGED predictChart
       ELSE IF IsNull(Val(res.data).energy_curve)
       THEN \* curveData.map throws after the KPI cards were updated
            /\ predictFailed("threw")
            /\ UNCHANGED predictChart
       ELSE /\ predictKpis' = updateKPIs(Val(res.data))
            /\ predictChart' = Val(res.data).energy_curve
            /\ predictMessage' = "success"
            /\ predictBtnDisabled' = FALSE
            /\ predictEvent' = "success"
  /\ UNCHANGED <<predictLoaded, lastForm>>
  /\ otherThanPredict

\* fetch rejects or the body is not JSON
PredictError ==
  /\ page = "prediction"
  /\ ~IsNull(predictPending)
  /\ predictPending' = None
  /\ predictFailed("failed")
  /\ UNCHANGED <<predictLoaded, predictChart, lastForm>>
  /\ otherThanPredict

\* ------------------------------------------------------------------
\* dashboard.js
\* ------------------------------------------------------------------
MaxDashRequests == 2

\* json.data of GET /api/dashboard/kpis
Metrics(soc, soh, energy, readiness, co2, alerts) ==
  [avg_soc |-> soc, avg_soh |-> soh, total_energy |-> energy,
   fleet_readiness |-> readiness, co2_savings |-> co2, alerts |-> alerts]

Alert(id, level, issue) == [bus_id |-> id, level |-> level, issue |-> issue]

DashMetrics ==
  { Metrics(Some(80), Some(90), Some(12), Some(70), Some(5), None),
    Metrics(Some(60), Some(0), None, Some(50), None,
            Some(<<Alert(B1, "critical", Some(<<"d">>))>>)),
    Metrics(Some(70), Some(85), Some(9), Some(65), Some(4),
            Some(<<Alert(B1, "critical", None), Alert(B2, "warning", None)>>)) }

DashResponses ==
  [ok : BOOLEAN, success : BOOLEAN,
   data : {None} \cup { Some(m) : m \in DashMetrics }]

\* `${v || 0}`
orZero(o) == IF IsNull(o) THEN 0 ELSE Val(o)

kpiValues(m) ==
  <<orZero(m.avg_soc), orZero(m.avg_soh), orZero(m.total_energy),
    orZero(m.fleet_readiness), orZero(m.co2_savings)>>

NoMetrics == Metrics(None, None, None, None, None, None)

showDashboardFallback(kpis) == KpiTexts("SYNCING...", <<>>)

\* an alert whose rendering throws: a.issue is read when a.level is not
\* "critical"
alertThrows(a) == a.level # "critical" /\ IsNull(a.issue)

\* the alerts rendered before the first one that throws
RECURSIVE renderedAlerts(_)
renderedAlerts(alerts) ==
  IF alerts = <<>> \/ alertThrows(Head(alerts)) THEN <<>>
  ELSE <<Head(alerts)>> \o renderedAlerts(Tail(alerts))

otherThanDash ==
  UNCHANGED <<routeVars, authVars, logsVars, predictVars, maintVars,
              signupVars, lastForm>>

\* fetchDashboardMetrics up to its first await: called on load and by the
\* 15 s interval
DashPageLoad ==
  /\ page = "dashboard"
  /\ ~dashLoaded
  /\ dashLoaded' = TRUE
  /\ dashPending' = dashPending + 1
  /\ dashEvent' = "issued"
  /\ UNCHANGED <<dashKpis, dashAlerts, alertsState>>
  /\ otherThanDash

DashTimer ==
  /\ page = "dashboard"
  /\ dashLoaded
  /\ dashPending < MaxDashRequests
  /\ dashPending' = dashPending + 1
  /\ dashEvent' = "issued"
  /\ UNCHANGED <<dashLoaded, dashKpis, dashAlerts, alertsState>>
  /\ otherThanDash

\* fetchDashboardMetrics after the body was parsed
DashResponse ==
  /\ page = "dashboard"
  /\ dashPending > 0
  /\ dashPending' = dashPending - 1
  /\ \E res \in DashResponses :
       IF ~res.ok \/ ~res.success
       THEN /\ dashKpis' = showDashboardFallback(dashKpis)
            /\ dashEvent' = "failed"
            /\ UNCHANGED <<dashAlerts, alertsState>>
       ELSE LET metrics == IF IsNull(res.data) THEN NoMetrics ELSE Val(res.data)
                alerts == IF IsNull(metrics.alerts) THEN <<>>
                          ELSE Val(metrics.alerts)
                shown == renderedAlerts(alerts)
            IN IF alerts = <<>>
               THEN /\ dashKpis' = KpiTexts("value", kpiValues(metrics))
                    /\ dashAlerts' = <<>>
                    /\ alertsState' = "optimal"
                    /\ dashEvent' = "success"
               ELSE IF shown = alerts
               THEN /\ dashKpis' = KpiTexts("value", kpiValues(metrics))
                    /\ dashAlerts' = alerts
                    /\ alertsState' = "hidden"
                    /\ dashEvent' = "success"
               ELSE \* updateAlerts throws after the KPI texts were set
                    /\ dashKpis' = showDashboardFallback(dashKpis)
                    /\ dashAlerts' = shown
                    /\ alertsState' = "hidden"
                    /\ dashEvent' = "threw"
  /\ UNCHANGED dashLoaded
  /\ otherThanDash

\* fetch rejects or the body is not JSON
DashError ==
  /\ page = "dashboard"
  /\ dashPending > 0
  /\ dashPending' = dashPending - 1
  /\ dashKpis' = showDashboardFallback(dashKpis)
  /\ dashEvent' = "failed"
  /\ UNCHANGED <<dashLoaded, dashAlerts, alertsState>>
  /\ otherThanDash

\* ------------------------------------------------------------------
\* maintenance.js
\* ------------------------------------------------------------------
MaxMaintRequests == 2

MaintData(upcoming, alerts, health, records) ==
  [upcoming_services |-> upcoming, active_alerts |-> alerts,
   avg_battery_health |-> health, records |-> records]

MaintRecord(id, status) == [bus_id |-> id, status |-> status]

MaintDatas ==
  { MaintData(Some(3), Some(1), Some(90), Some(<<MaintRecord(B1, "Critical")>>)),
    MaintData(Some(5), None, Some(80), Some(<<>>)),
    MaintData(None, Some(0), None, None) }

MaintResponses ==
  [ok : BOOLEAN, success : BOOLEAN,
   data : {None} \cup { Some(d) : d \in MaintDatas }]

\* Number.isFinite(v) ? v : "—", with -1 for the dash
finiteOrDash(o) == IF IsNull(o) THEN 0 - 1 ELSE Val(o)

NoMaintData == MaintData(None, None, None, None)

otherThanMaint ==
  UNCHANGED <<routeVars, authVars, logsVars, predictVars, dashVars,
              signupVars, lastForm>>

\* loadMaintenance up to its first await: showState("Fetching ..")
startLoadMaintenance ==
  /\ maintState' = "Fetching maintenance analytics"
  /\ maintPending' = maintPending + 1
  /\ maintEvent' = "issued"
  /\ UNCHANGED <<maintKpis, maintRows, maintCount>>

MaintPageLoad ==
  /\ page = "maintenance"
  /\ ~maintLoaded
  /\ maintLoaded' = TRUE
  /\ startLoadMaintenance
  /\ otherThanMaint

MaintTimer ==
  /\ page = "maintenance"
  /\ maintLoaded
  /\ maintPending < MaxMaintRequests
  /\ startLoadMaintenance
  /\ UNCHANGED maintLoaded
  /\ otherThanMaint

\* maintenanceCountEl.textContent = "—" in the catch block
maintFailedCount(count) == "dash"

maintFailed ==
  /\ maintCount' = maintFailedCount(maintCount)
  /\ maintState' = "Failed to load maintenance data"
  /\ maintEvent' = "failed"
  /\ UNCHANGED <<maintKpis, maintRows>>

\* loadMaintenance after the body was parsed
MaintResponse ==
  /\ page = "maintenance"
  /\ maintPending > 0
  /\ maintPending' = maintPending - 1
  /\ \E res \in MaintResponses :
       IF ~res.ok \/ ~res.success
       THEN maintFailed
       ELSE LET data == IF IsNull(res.data) THEN NoMaintData ELSE Val(res.data)
                records == IF IsNull(data.records) THEN <<>> ELSE Val(data.records)
            IN /\ maintKpis' =
                    KpiTexts("value",
                             <<finiteOrDash(data.upcoming_services),
                               finiteOrDash(data.active_alerts),
                               finiteOrDash(data.avg_battery_health)>>)
               /\ maintRows' = records
               /\ maintEvent' = "success"
               /\ IF records = <<>>
                  THEN /\ maintCount' = "0 records"
                       /\ maintState' = "No maintenance records available"
                  ELSE /\ maintCount' = "n records"
                       /\ maintState' = "hidden"
  /\ UNCHANGED maintLoaded
  /\ otherThanMaint

\* fetch rejects or the body is not JSON
MaintError ==
  /\ page = "maintenance"
  /\ maintPending > 0
  /\ maintPending' = maintPending - 1
  /\ maintFailed
  /\ UNCHANGED maintLoaded
  /\ otherThanMaint

\* ------------------------------------------------------------------
\* signup.js
\* ------------------------------------------------------------------
NameFields == { <<>>, <<" ">>, <<"j">> }

OrganizationFields == { <<>>, <<"o">> }

EmailFields == { <<>>, <<"j">> }

PasswordFields == { <<>>, <<" ">>, <<"p">> }

ConfirmFields == { <<>>, <<"p">>, <<"q">> }

otherThanSignup ==
  UNCHANGED <<routeVars, logsVars, predictVars, dashVars, maintVars>>

SignupPageLoad ==
  /\ page = "signup"
  /\ ~signupLoaded
  /\ signupLoaded' = TRUE
  /\ UNCHANGED <<signupMessage, signupBtnDisabled, signupPending, signupTimer,
                 lastForm>>
  /\ UNCHANGED authVars
  /\ otherThanSignup

\* the submit handler up to its first await
SignupSubmit ==
  /\ page = "signup"
  /\ signupLoaded
  /\ ~signupBtnDisabled
  /\ \E nameField \in NameFields, organization \in OrganizationFields,
        emailField \in EmailFields, password \in PasswordFields,
        confirmPassword \in ConfirmFields :
       LET name == trim(nameField)
           email == trim(emailField)
       IN /\ lastForm' = <<nameField, organization, emailField, password,
                           confirmPassword>>
          /\ IF name = <<>> \/ organization = <<>> \/ email = <<>>
                \/ password = <<>> \/ confirmPassword = <<>>
             THEN /\ signupMessage' = "required"
                  /\ UNCHANGED <<signupBtnDisabled, signupPending>>
             ELSE IF password # confirmPassword
             THEN /\ signupMessage' = "mismatch"
                  /\ UNCHANGED <<signupBtnDisabled, signupPending>>
             ELSE /\ signupMessage' = "none"
                  /\ signupBtnDisabled' = TRUE
                  /\ signupPending' =
                       Some([name |-> name, email |-> email,
                             organization |-> organization,
                             password |-> password])
  /\ UNCHANGED <<signupLoaded, signupTimer>>
  /\ UNCHANGED authVars
  /\ otherThanSignup

\* the submit handler after the body was parsed
SignupResponse ==
  /\ page = "signup"
  /\ ~IsNull(signupPending)
  /\ signupPending' = None
  /\ \E ok \in BOOLEAN :
       IF ~ok
       THEN /\ signupMessage' = "error"
            /\ signupBtnDisabled' = FALSE
            /\ UNCHANGED signupTimer
       ELSE /\ signupMessage' = "success"
            /\ signupTimer' = TRUE
            /\ UNCHANGED signupBtnDisabled
  /\ UNCHANGED <<signupLoaded, lastForm>>
  /\ UNCHANGED authVars
  /\ otherThanSignup

\* fetch rejects or the body is not JSON
SignupError ==
  /\ page = "signup"
  /\ ~IsNull(signupPending)
  /\ signupPending' = None
  /\ signupMessage' = "error"
  /\ signupBtnDisabled' = FALSE
  /\ UNCHANGED <<signupLoaded, signupTimer, lastForm>>
  /\ UNCHANGED authVars
  /\ otherThanSignup

\* the setTimeout callback: the login page replaces the signup page
SignupRedirect ==
  /\ page = "signup"
  /\ signupTimer
  /\ Navigate("login")
  /\ signupLoaded' = FALSE
  /\ signupMessage' = "none"
  /\ signupBtnDisabled' = FALSE
  /\ signupPending' = None
  /\ signupTimer' = FALSE
  /\ UNCHANGED <<localStorage, loginResp, authEvent, guardRead, lastForm>>
  /\ otherThanSignup

\* ------------------------------------------------------------------
\* The pages, one of them open
\* ------------------------------------------------------------------
ViewPages ==
  {"logs", "prediction", "dashboard", "maintenance", "signup", "login"}

\* responses of GET /api/logs for the pages run
ViewLogRecords ==
  { LogRecord(id, Some(Pct(92)), None, None) : id \in BusIds }
  \cup { LogRecord(B1, Some(Pct(55)), None, Some("d")) }

ViewLogResponses ==
  LogsFailures
  \cup { LogsBody(TRUE, TRUE, Some(<<r>>)) : r \in ViewLogRecords }
  \cup { LogsBody(TRUE, TRUE, Some(<<LogRecord(B1, Some(Pct(40)), None, None),
                                     LogRecord(B2, Some(Pct(92)), None, None)>>)),
         LogsBody(TRUE, TRUE, Some(<<LogRecord(B1, Some(Pct(55)), None, None),
                                     LogRecord(B1, Some(Pct(92)), None, None)>>)) }

InitViews ==
  /\ RouteClosed
  /\ PagesFresh
  /\ page \in ViewPages
  /\ \E list \in StoredLists :
       /\ localStorage =
            [k \in StorageKeys |->
               IF k = ACTIVE_BUSES_KEY /\ list # <<>> /\ page = "logs"
               THEN Some(stringify(list)) ELSE None]
       /\ activeBuses = parseActiveBuses(localStorage[ACTIVE_BUSES_KEY])
  /\ loginLoaded = FALSE
  /\ loginButtonDisabled = FALSE
  /\ loginMessage = "none"
  /\ loginPending = None
  /\ redirectTimer = FALSE
  /\ guardPending = None
  /\ authRequests = 0
  /\ currentUser = None
  /\ loginResp = None
  /\ authEvent = "none"
  /\ guardRead = None

NextViews ==
  \/ LogsPageLoad
  \/ LogsSubmit
  \/ LogsResponse(ViewLogResponses)
  \/ LogsError
  \/ BusCellClick
  \/ RemoveBus
  \/ CloseAll
  \/ ExportSubmit
  \/ ExportResponse
  \/ PredictPageLoad
  \/ PredictSubmit
  \/ PredictResponse
  \/ PredictError
  \/ DashPageLoad
  \/ DashTimer
  \/ DashResponse
  \/ DashError
  \/ MaintPageLoad
  \/ MaintTimer
  \/ MaintResponse
  \/ MaintError
  \/ SignupPageLoad
  \/ SignupSubmit
  \/ SignupResponse
  \/ SignupError
  \/ SignupRedirect
  \/ LoginPageLoad
  \/ LoginSubmit
  \/ LoginResponse
  \/ LoginError
  \/ RedirectTimer

SpecViews == InitViews /\ [][NextViews]_vars

\* ------------------------------------------------------------------
\* Properties of the route view
\* ------------------------------------------------------------------
IdsOf(buses) == { buses[k].bus_id : k \in 1..Len(buses) }

RenderedIdsOf(buses, q) ==
  { buses[k].bus_id :
      k \in { j \in 1..Len(buses) :
                HasPosition(buses[j]) /\ matchesQuery(buses[j], q) } }

\* C1 (as stated): after every successful poll cycle the identifiers with a
\* marker are exactly the bus_id values of the response's buses list.
C1_MarkersEqualResponseIds ==
  lastEvent = "success" => DOMAIN busMarkers = IdsOf(lastBatch)

\* C1 (amended): after every successful poll cycle the identifiers with a
\* marker are exactly the bus_id values of those buses of the response that
\* match the search filter and have both a latitude and a longitude.
C1_MarkersEqualRenderedIds ==
  lastEvent = "success" =>
    DOMAIN busMarkers = RenderedIdsOf(lastBatch, toLowerCase(mapSearch))

\* C1 witness: a successful cycle removed the marker of a vehicle that is in
\* the response (filtered out or without a position) and kept another one.
C1_Witness ==
  /\ lastEvent = "success"
  /\ passes = 2
  /\ B1 \in IdsOf(lastBatch)
  /\ B2 \in IdsOf(lastBatch)
  /\ DOMAIN busMarkers = {B2}
  /\ mapSearch = <<"B", "2">>

C3_AtMostOneInFlight ==
  /\ [](inflight \in {0, 1} /\ (isFetching <=> inflight = 1))
  /\ [][lastEvent' = "dropped" =>
          /\ isFetching /\ isFetching'
          /\ inflight' = inflight
          /\ pollStartIds' = pollStartIds]_vars
  /\ [][inflight' > inflight => (~isFetching /\ lastEvent' = "issued")]_vars
  /\ [][lastEvent' \in {"success", "fail"} => inflight' = 0]_vars

\* C3 witness: the countdown timer called fetchRouteStatus while a request
\* was outstanding and the call was dropped.
C3_Witness ==
  /\ lastEvent = "dropped"
  /\ inflight = 1
  /\ countdown < 0

\* C7 (as stated): in every successful cycle every critical vehicle of the
\* batch has a focused marker and the map was panned to its position.
FocusedAndPanned(bus) ==
  /\ HasPosition(bus)
  /\ Has(busMarkers, bus.bus_id)
  /\ busMarkers[bus.bus_id].focused
  /\ \E j \in 1..Len(panLog) :
       panLog[j] = [bus_id |-> bus.bus_id, lat |-> Val(bus.lat),
                    lng |-> Val(bus.lng)]

C7_CriticalAlwaysFocused ==
  lastEvent = "success" =>
    \A k \in 1..Len(tableRows) :
      tableRows[k].status = "CRITICAL" => FocusedAndPanned(tableRows[k])

\* C7 (amended): in every successful cycle every vehicle of the rendered
\* batch that has a position and whose status is "CRITICAL" has a focused
\* marker and the map was panned to its position, whatever selectedBusId is.
C7_PositionedCriticalFocused ==
  lastEvent = "success" =>
    \A k \in 1..Len(tableRows) :
      (tableRows[k].status = "CRITICAL" /\ HasPosition(tableRows[k]))
         => FocusedAndPanned(tableRows[k])

\* C7 witness: a critical vehicle was panned to while another vehicle of
\* the batch was the selected one.
C7_Witness ==
  /\ lastEvent = "success"
  /\ Len(tableRows) = 2
  /\ tableRows[1].status = "CRITICAL"
  /\ tableRows[2].status = "GOOD"
  /\ selectedBusId = tableRows[2].bus_id
  /\ Len(panLog) = 2

\* C8: within one render pass each station name has at most one marker on
\* the station layer.
C8_OneStationMarkerPerName ==
  \A i, j \in 1..Len(stationLayer) :
    stationLayer[i].name = stationLayer[j].name => i = j

\* C21: after every successful poll cycle, the first and the later ones,
\* each charging station of a rendered vehicle (one that matches the search
\* filter and has a position) has a marker on the station layer.
C21_StationsMarkedEachCycle ==
  lastEvent = "success" =>
    \A k \in 1..Len(lastBatch) :
      ( /\ HasPosition(lastBatch[k])
        /\ matchesQuery(lastBatch[k], toLowerCase(mapSearch))
        /\ ~IsNull(lastBatch[k].charging_station) ) =>
        \E i \in 1..Len(stationLayer) :
          stationLayer[i].name = Val(lastBatch[k].charging_station).name

\* C9: an interpolation that started with no other one running on the same
\* cursor has made i of its 40 steps and the cursor is (40 - i) steps short
\* of the target; once its closure has left the frame queue, cursor and
\* marker are the target and stay there.
SteppingOn(id) ==
  { k \in 1..Len(steppers) :
      /\ steppers[k].id = id
      /\ steppers[k].sobj = animationState[id].obj
      /\ ~stepDone(steppers[k]) }

C9_UndisturbedConverges ==
  \A id \in solo :
    /\ Has(animationState, id) /\ Has(busMarkers, id)
    /\ busMarkers[id].lat = animationState[id].lat
    /\ busMarkers[id].lng = animationState[id].lng
    /\ Cardinality(SteppingOn(id)) <= 1
    /\ \A k \in SteppingOn(id) :
         /\ steppers[k].i \in 1..(steps - 1)
         /\ steppers[k].target = lastTarget[id]
         /\ animationState[id].lat =
              lastTarget[id][1] - (steps - steppers[k].i) * steppers[k].dLat
         /\ animationState[id].lng =
              lastTarget[id][2] - (steps - steppers[k].i) * steppers[k].dLng
    /\ SteppingOn(id) = {} =>
         /\ animationState[id].lat = lastTarget[id][1]
         /\ animationState[id].lng = lastTarget[id][2]

\* C9 witness: the marker was created at 0, one interpolation to Unit ran
\* alone, and its closure has left the queue.
C9_Witness ==
  /\ B1 \in solo
  /\ steppers = <<>>
  /\ passes = 2
  /\ lastTarget[B1] = <<Unit, 0>>
  /\ busMarkers[B1].lat = Unit

\* C10: once no interpolation of a marker is stepping any more, the marker
\* is at the most recently reported position.
C10_LastWriteWins ==
  \A id \in DOMAIN busMarkers :
    SteppingOn(id) = {} =>
      /\ busMarkers[id].lat = lastTarget[id][1]
      /\ busMarkers[id].lng = lastTarget[id][2]

\* C14: in each successful poll cycle the map is panned to at most one
\* vehicle and at most one marker is focused.
C14_SingleFocusPerCycle ==
  lastEvent = "success" =>
    /\ Len(panLog) <= 1
    /\ Cardinality({ id \in DOMAIN busMarkers : busMarkers[id].focused }) <= 1

\* C15: the identifiers with a marker are those with interpolation state; a
\* successful cycle whose rendered batch lacks a known identifier deletes its
\* marker and its interpolation state; an identifier that gets a marker in a
\* cycle in which it had none has marker and cursor at the reported position
\* and no step closure on its new marker or cursor.
ReportedPosition(id) ==
  { <<Val(tableRows[k].lat), Val(tableRows[k].lng)>> :
      k \in { j \in 1..Len(tableRows) :
                tableRows[j].bus_id = id /\ HasPosition(tableRows[j]) } }

C15_MarkerLifeCycle ==
  /\ [](DOMAIN busMarkers = DOMAIN animationState)
  /\ [][lastEvent' = "success" =>
          \A id \in DOMAIN busMarkers :
            ReportedPosition(id)' = {} =>
              /\ ~Has(busMarkers', id)
              /\ ~Has(animationState', id)]_vars
  /\ [][\A id \in (DOMAIN busMarkers') \ (DOMAIN busMarkers) :
          /\ lastEvent' = "success"
          /\ <<busMarkers'[id].lat, busMarkers'[id].lng>> \in ReportedPosition(id)'
          /\ <<animationState'[id].lat, animationState'[id].lng>>
                \in ReportedPosition(id)'
          /\ animationState'[id].obj = busMarkers'[id].obj
          /\ \A k \in 1..Len(steppers') :
               steppers'[k].id = id =>
                 /\ steppers'[k].sobj # animationState'[id].obj
                 /\ steppers'[k].mobj # busMarkers'[id].obj]_vars

\* C15 witness: the vehicle was created, moved, removed and has just been
\* created again at 0 while a closure of its first marker is still queued.
C15_Witness ==
  /\ lastEvent = "success"
  /\ passes = 4
  /\ Has(busMarkers, B1)
  /\ busMarkers[B1].lat = 0
  /\ busMarkers[B1].obj = 1
  /\ \E k \in 1..Len(steppers) : steppers[k].id = B1 /\ steppers[k].sobj = 0

\* C16: an animation frame creates and deletes no marker and no cursor, and
\* moves each rendered vehicle by exactly the steps of the closures that
\* were started for its present marker: closures of a removed marker
\* contribute nothing, also to a new marker of the same identifier.
RECURSIVE LiveDelta(_, _, _)
LiveDelta(id, k, field) ==
  IF k > Len(steppers) THEN 0
  ELSE (IF k \in SteppingOn(id) THEN steppers[k][field] ELSE 0)
       + LiveDelta(id, k + 1, field)

C16_StaleStepsAreNoOps ==
  [][lastEvent' = "frame" =>
       /\ DOMAIN busMarkers' = DOMAIN busMarkers
       /\ DOMAIN animationState' = DOMAIN animationState
       /\ \A id \in DOMAIN busMarkers :
            /\ busMarkers'[id].obj = busMarkers[id].obj
            /\ animationState'[id].obj = animationState[id].obj
            /\ animationState'[id].lat =
                 animationState[id].lat + LiveDelta(id, 1, "dLat")
            /\ animationState'[id].lng =
                 animationState[id].lng + LiveDelta(id, 1, "dLng")
            /\ SteppingOn(id) = {} =>
                 /\ busMarkers'[id] = busMarkers[id]
                 /\ animationState'[id] = animationState[id]]_vars

\* C16 witness: frames have run on the closure of a removed marker while a
\* new marker of the same vehicle stood still at its reported position.
C16_Witness ==
  /\ lastEvent = "frame"
  /\ Has(busMarkers, B1)
  /\ busMarkers[B1].obj = 1
  /\ busMarkers[B1].lat = Unit
  /\ animationState[B1].lat = Unit
  /\ SteppingOn(B1) = {}
  /\ \E k \in 1..Len(steppers) :
       /\ steppers[k].sobj = 0
       /\ steppers[k].dLat # 0
       /\ steppers[k].i > 2

\* C17: a settling poll releases isFetching and resets countdown to
\* REFRESH_INTERVAL; a dropped call leaves isFetching set and countdown as
\* the caller left it (the timer has made its own decrement); a settling
\* poll issues nothing; the timer issues a poll only when countdown has run
\* down; and after a failed poll a poll is eventually issued.
C17_PollingNeverLocksOut ==
  /\ [][lastEvent' \in {"success", "fail"} =>
          /\ ~isFetching'
          /\ countdown' = REFRESH_INTERVAL
          /\ inflight' = inflight - 1]_vars
  /\ [][lastEvent' = "dropped" =>
          /\ isFetching' = isFetching
          /\ \/ countdown' = countdown
             \/ Tick /\ countdown' = countdown - 1]_vars
  /\ [][(Tick /\ lastEvent' = "issued") => countdown' <= 0]_vars
  /\ ((lastEvent = "fail") ~> (lastEvent = "issued"))

\* C17 witness: after a failed poll the countdown ran down and the timer
\* issued the next poll.
C17_Witness ==
  /\ lastEvent = "issued"
  /\ countdown = 0
  /\ routeState = "shown"
  /\ inflight = 1

\* C20: the countdown stays within 0..REFRESH_INTERVAL.
C20_CountdownInRange == countdown \in 0..REFRESH_INTERVAL

\* ------------------------------------------------------------------
\* Properties of the login page and the guard
\* ------------------------------------------------------------------
\* C4: after a login whose response is successful (ok, success, non-empty
\* token, user object) the token stored under the login key is the token of
\* the response and the redirect is armed; the page then reaches index.html.
C4_LoginStoresTokenAndRedirects ==
  /\ [](loginMessage = "success" =>
          /\ page = "login"
          /\ ~IsNull(loginResp)
          /\ Truthy(getItem(LOGIN_TOKEN_KEY))
          /\ getItem(LOGIN_TOKEN_KEY) = Val(loginResp).token
          /\ redirectTimer)
  /\ ((loginMessage = "success") ~> (page = "index"))

\* C4 witness: the response {success, token "abc", user Jo} was handled and
\* the page has navigated to index.html with "abc" stored.
C4_Witness ==
  /\ page = "index"
  /\ loginResp = Some([ok |-> TRUE, success |-> TRUE, token |-> Some("abc"),
                       user |-> Some(UserJo)])
  /\ getItem(LOGIN_TOKEN_KEY) = Some("abc")

\* C5: once a successful login has stored its token, a guard call on the
\* protected page reads that token from storage (and so does not find the
\* token missing).
GuardHasRun ==
  authEvent \in {"missing", "sent", "rejected", "failed", "admitted", "forbidden"}

C5_GuardReadsLoginToken ==
  ( /\ ~IsNull(loginResp)
    /\ ~loginRejected(Val(loginResp))
    /\ ~IsNull(Val(loginResp).user)
    /\ GuardHasRun )
  => /\ guardRead = getItem(LOGIN_TOKEN_KEY)
     /\ authEvent # "missing"

\* C6: a guard call that finds no token, or whose /api/auth/me request is
\* rejected or fails, redirects to the login page, leaves window.currentUser
\* unset and sends no request; a request is sent only at the start of a
\* guard call that found a token, one per call; window.currentUser is set
\* only by a guard call whose response was accepted and, for requireRole,
\* carried an allowed role.
GuardStep == GuardCall \/ GuardResponse \/ GuardError

C6_DeniedRedirectsNoRetry ==
  /\ [][(GuardStep /\ authEvent' \in {"missing", "rejected", "failed"}) =>
          /\ page' = "login"
          /\ IsNull(currentUser')
          /\ IsNull(guardPending')
          /\ authRequests' <= authRequests]_vars
  /\ [][authRequests' > authRequests =>
          /\ authRequests' = authRequests + 1
          /\ IsNull(guardPending) /\ ~IsNull(guardPending')
          /\ Truthy(getItem(GUARD_TOKEN_KEY))
          /\ Val(guardPending').token = Val(getItem(GUARD_TOKEN_KEY))]_vars
  /\ [][(GuardStep /\ authEvent' = "forbidden") => IsNull(currentUser')]_vars
  /\ [][(currentUser' # currentUser /\ ~IsNull(currentUser')) =>
          /\ ~IsNull(guardPending)
          /\ authEvent' = "admitted"
          /\ \E res \in MeResponses :
               /\ res.ok
               /\ res.body = currentUser'
               /\ \/ IsNull(Val(guardPending).roles)
                  \/ Val(res.body).role \in Val(Val(guardPending).roles)]_vars

\* C6 witness: /api/auth/me rejected the stored token and the page went
\* back to the login view with the token removed.
C6_Witness ==
  /\ authEvent = "rejected"
  /\ page = "login"
  /\ guardRead = Some("old")
  /\ IsNull(getItem(GUARD_TOKEN_KEY))
  /\ IsNull(currentUser)

\* C18: after logoutUser no session token is left in storage, neither the
\* one the login page tests nor the one the guard reads, and the login page
\* loaded next does not redirect to the dashboard.
C18_LogoutEndsSession ==
  /\ [](authEvent = "logout" =>
          /\ ~Truthy(getItem(LOGIN_TOKEN_KEY))
          /\ ~Truthy(getItem(GUARD_TOKEN_KEY)))
  /\ [][(authEvent = "logout" /\ LoginPageLoad) => page' = "login"]_vars

\* C19: a login attempt that ends with an error message leaves storage as
\* it was and the button enabled; the token under the login key changes
\* only in an attempt that ends with the success message and the redirect
\* armed.
LoginStep == LoginSubmit \/ LoginResponse \/ LoginError

C19_ErrorLeavesStorage ==
  /\ [][(LoginStep /\ loginMessage' \in {"validation", "failed", "server"}) =>
          /\ localStorage' = localStorage
          /\ ~loginButtonDisabled']_vars
  /\ [][getItem(LOGIN_TOKEN_KEY)' # getItem(LOGIN_TOKEN_KEY) =>
          /\ loginMessage' = "success"
          /\ redirectTimer']_vars

\* ------------------------------------------------------------------
\* Properties of the other pages
\* ------------------------------------------------------------------
\* C11: a loaded record whose reported SoH is a whole percentage p of
\* 0..100 is stored with "Good" and 0 issues for p >= 90, "Attention" and 1
\* issue for 50 <= p < 60, "Critical" and 1 issue for p < 50, and with 1
\* issue exactly when p < 60.
ClaimedClassification(p, e) ==
  /\ p >= 90 => (e.status = "Good" /\ e.issues = 0)
  /\ (p >= 50 /\ p < 60) => (e.status = "Attention" /\ e.issues = 1)
  /\ p < 50 => (e.status = "Critical" /\ e.issues = 1)
  /\ e.issues = 1 <=> p < 60

C11_StoredClassification ==
  logsEvent = "loaded" =>
    \A p \in 0..100 :
      lastRecords[Len(lastRecords)].soh = Some(Pct(p)) =>
        \E i \in 1..Len(activeBuses) :
          /\ activeBuses[i].bus_id = lastRecords[Len(lastRecords)].bus_id
          /\ ClaimedClassification(p, activeBuses[i])

\* C11 (the function alone): getStatusAndIssues follows the thresholds for
\* every whole percentage.
C11_Thresholds ==
  \A p \in 0..100 : ClaimedClassification(p, getStatusAndIssues(Pct(p)))

\* C12: a failed remote call shows its error message and leaves what was
\* displayed before as it was: the KPI cards of the prediction page, the KPI
\* texts and alerts of the dashboard, the KPI texts, rows and record count
\* of the maintenance page, the rows of the logs table.
C12_FailureKeepsDisplay ==
  /\ [][predictEvent' = "failed" =>
          /\ predictMessage' = "error"
          /\ predictKpis.kind = "value" => predictKpis' = predictKpis]_vars
  /\ [][dashEvent' = "failed" =>
          /\ dashKpis.kind = "value" => dashKpis' = dashKpis
          /\ dashAlerts' = dashAlerts]_vars
  /\ [][maintEvent' = "failed" =>
          /\ maintState' = "Failed to load maintenance data"
          /\ maintKpis' = maintKpis
          /\ maintRows' = maintRows
          /\ maintCount \in {"0 records", "n records"} =>
               maintCount' = maintCount]_vars
  /\ [][logsEvent' = "error" =>
          /\ logState' = "Error loading logs"
          /\ activeBuses' = activeBuses
          /\ logRows' = logRows]_vars

\* C13: a form submitted with an invalid field shows the validation error,
\* sends no request and leaves storage and the button as they were: login
\* with a blank email or password; signup with a blank name or email, an
\* empty organization, password or confirmation, or a confirmation that
\* differs from the password; prediction with a blank route, a passenger
\* load that is not a number, or no weather; log load and export with a
\* blank bus id.
Blank(s) == \A i \in 1..Len(s) : s[i] = " "

\* a text that is digits between optional blanks
Numeric(s) ==
  /\ ~Blank(s)
  /\ \A i \in 1..Len(s) :
       \/ s[i] \in {"0", "1", "2", "3", "4", "5", "6", "7", "8", "9"}
       \/ /\ s[i] = " "
          /\ \/ \A j \in 1..i : s[j] = " "
             \/ \A j \in i..Len(s) : s[j] = " "

InvalidSignup(f) ==
  \/ Blank(f[1]) \/ f[2] = <<>> \/ Blank(f[3]) \/ f[4] = <<>> \/ f[5] = <<>>
  \/ f[4] # f[5]

InvalidPrediction(f) ==
  Blank(f[1]) \/ ~Numeric(f[2]) \/ f[3] = <<>>

C13_ValidationBlocksRequest ==
  /\ [][(LoginSubmit /\ (Blank(lastForm'[1]) \/ Blank(lastForm'[2]))) =>
          /\ loginMessage' = "validation"
          /\ loginPending' = loginPending
          /\ loginButtonDisabled' = loginButtonDisabled
          /\ localStorage' = localStorage]_vars
  /\ [][(SignupSubmit /\ InvalidSignup(lastForm')) =>
          /\ signupMessage' \in {"required", "mismatch"}
          /\ signupPending' = signupPending
          /\ signupBtnDisabled' = signupBtnDisabled
          /\ localStorage' = localStorage]_vars
  /\ [][(PredictSubmit /\ InvalidPrediction(lastForm')) =>
          /\ predictMessage' = "validation"
          /\ predictPending' = predictPending
          /\ predictBtnDisabled' = predictBtnDisabled
          /\ localStorage' = localStorage]_vars
  /\ [][(LogsSubmit /\ Blank(lastForm'[1])) =>
          /\ logState' = "Please enter a Bus ID"
          /\ logsPending' = logsPending
          /\ localStorage' = localStorage]_vars
  /\ [][(ExportSubmit /\ Blank(lastForm'[1])) =>
          /\ logsAlert' = "Please enter a Bus ID to export telemetry"
          /\ exportPending' = exportPending
          /\ lastDownload' = lastDownload
          /\ localStorage' = localStorage]_vars

\* C22: the active-buses list of the logs view never holds two entries with
\* the same bus_id, and the "activeBuses" item of storage is the serialised
\* list (absent only while the list is empty); a load that merges records
\* keeps every entry at its place, replaces the entries of the loaded ids
\* and appends the ids that were not in the list; remove-bus stores the
\* shortened list, close-all removes the item, and a failed or empty load
\* changes neither the list nor the item.
DistinctBusIds(list) ==
  \A i, j \in 1..Len(list) : list[i].bus_id = list[j].bus_id => i = j

Mirrored ==
  IF IsNull(localStorage[ACTIVE_BUSES_KEY]) THEN activeBuses = <<>>
  ELSE Val(localStorage[ACTIVE_BUSES_KEY]) = stringify(activeBuses)

MergedInPlace(old, new, records) ==
  /\ Len(new) >= Len(old)
  /\ \A i \in 1..Len(old) :
       /\ new[i].bus_id = old[i].bus_id
       /\ old[i].bus_id \notin IdsOf(records) => new[i] = old[i]
  /\ \A i \in (Len(old) + 1)..Len(new) :
       new[i].bus_id \in IdsOf(records) \ IdsOf(old)
  /\ IdsOf(records) \subseteq IdsOf(new)

C22_KeyedListMirrored ==
  /\ [](DistinctBusIds(activeBuses) /\ Mirrored)
  /\ [][logsEvent' = "loaded" =>
          /\ MergedInPlace(activeBuses, activeBuses', lastRecords')
          /\ ~IsNull(localStorage'[ACTIVE_BUSES_KEY])]_vars
  /\ [][logsEvent' = "removed" =>
          /\ Len(activeBuses') = Len(activeBuses) - 1
          /\ ~IsNull(localStorage'[ACTIVE_BUSES_KEY])]_vars
  /\ [][logsEvent' = "closed" =>
          /\ activeBuses' = <<>>
          /\ IsNull(localStorage'[ACTIVE_BUSES_KEY])]_vars
  /\ [][logsEvent' \in {"error", "norecords"} =>
          /\ activeBuses' = activeBuses
          /\ localStorage'[ACTIVE_BUSES_KEY] =
               localStorage[ACTIVE_BUSES_KEY]]_vars

\* C22 witness: a load for a bus already in a list of two replaced its entry
\* at the first place, and storage holds the new list.
C22_Witness ==
  /\ logsEvent = "loaded"
  /\ lastRecords = <<LogRecord(B1, Some(Pct(55)), None, Some("d"))>>
  /\ Len(activeBuses) = 2
  /\ activeBuses[1].bus_id = B1
  /\ activeBuses[1].status = "Attention"
  /\ activeBuses[2].bus_id = B2
  /\ localStorage[ACTIVE_BUSES_KEY] = Some(stringify(activeBuses))

=============================================================================
